---- MODULE Spec2Model ----
(***************************************************************************)
(* gsm: an interactive terminal front-end to `git stash`.                  *)
(*                                                                         *)
(* The model follows the three source modules:                             *)
(*   git.rs     the gateway: one operator per function, applied to the     *)
(*              outcome of the `git` child process it spawns;              *)
(*   app.rs     the App struct (the record `app`) and its methods;         *)
(*   events.rs  handle_events and the per-mode key handlers.               *)
(* One step of the model is one call of handle_events by the loop of run.  *)
(* Strings are TLA+ strings; a character is a string of length one.        *)
(***************************************************************************)
EXTENDS Integers, Sequences, FiniteSets, TLC

VARIABLES app, ret, last

vars == <<app, ret, last>>

-----------------------------------------------------------------------------
(* Bounds of the model.                                                    *)

\* the longest stash list the gateway reports
MaxStashes == 2
\* the longest search query typed
MaxQuery == 1
\* the longest new-stash message typed
MaxInput == 1

-----------------------------------------------------------------------------
(* Strings: what the standard-library calls of the source do.              *)

CharAt(s, i) == SubSeq(s, i, i)

\* the characters of the string s
Chars(s) == {CharAt(s, i) : i \in 1..Len(s)}

\* Letter case follows the Unicode tables (17.0) of char::to_lowercase, Cased and
\* Case_Ignorable, over the characters a string can hold here: the ASCII ones but
\* the grave accent, and those of the Basic Multilingual Plane whose code point is
\* 128 or more modulo 256.

\* the characters that char::to_lowercase changes to a character a string can hold,
\* in code point order
UpperLetters ==
  "ABCDEFGHIJKLMNOPQRSTUVWXYZÀÁÂÃÄÅÆÇÈÉÊËÌÍÎÏÐÑÒÓÔÕÖØÙÚÛÜÝÞƂƄƇƋ" \o
  "ƎƑƘƠƢƤƦƧƩƬƮƯƱƲƳƵƷƸƼǄǅǇǈǊǋǍǏǑǓǕǗǙǛǞǠǢǤǦǨǪǬǮǱǲǴǶǷǸǺǼǾΆΈΉΊΌΎΏΑΒ" \o
  "ΓΔΕΖΗΘΙΚΛΜΝΞΟΠΡΣΤΥΦΧΨΩΪΫϏϘϚϜϞϠϢϤϦϨϪϬϮϴϷϹϺҀҊҌҎҐҒҔҖҘҚҜҞҠҢҤҦҨҪҬ" \o
  "ҮҰҲҴҶҸҺҼҾӀӁӃӅӇӉӋӍӐӒӔӖӘӚӜӞӠӢӤӦӨӪӬӮӰӲӴӶӸӺӼӾᎰᎱᎲᎳᎴᎵᎶᎷᎸᎹᎺᎻᎼᎽᎾᎿᏀᏁᏂ" \o
  "ᏃᏄᏅᏆᏇᏈᏉᏊᏋᏌᏍᏎᏏᏐᏑᏒᏓᏔᏕᏖᏗᏘᏙᏚᏛᏜᏝᏞᏟᏠᏡᏢᏣᏤᏥᏦᏧᏨᏩᏪᏫᏬᏭᏮᏯᏰᏱᏲᏳᏴᏵᲉᲐᲑᲒᲓᲔᲕᲖᲗ" \o
  "ᲘᲙᲚᲛᲜᲝᲞᲟᲠᲡᲢᲣᲤᲥᲦᲧᲨᲩᲪᲫᲬᲭᲮᲯᲰᲱᲲᲳᲴᲵᲶᲷᲸᲹᲺᲽᲾᲿẀẂẄẆẈẊẌẎẐẒẔẞẠẢẤẦẨẪẬẮẰẲ" \o
  "ẴẶẸẺẼẾỀỂỄỆỈỊỌỎỐỒỔỖỘỚỜỞỠỢỤỦỨỪỬỮỰỲỴỶỸỺỼỾᾈᾉᾊᾋᾌᾍᾎᾏᾘᾙᾚᾛᾜᾝᾞᾟᾨᾩᾪᾫᾬᾭ" \o
  "ᾮᾯᾸᾹᾼῌῘῙῨῩῬῼↃⒶⒷⒸⒹⒺⒻⒼⒽⒾⒿⓀⓁⓂⓃⓄⓅⓆⓇⓈⓉⓊⓋⓌⓍⓎⓏⲀⲂⲄⲆⲈⲊⲌⲎⲐⲒⲔⲖⲘⲚⲜⲞⲠⲢⲤⲦⲨ" \o
  "ⲪⲬⲮⲰⲲⲴⲶⲸⲺⲼⲾⳀⳂⳄⳆⳈⳊⳌⳎⳐⳒⳔⳖⳘⳚⳜⳞⳠⳢⳫⳭⳲꚀꚂꚄꚆꚈꚊꚌꚎꚐꚒꚔꚖꚘꚚꞀꞂꞄꞆꞋꞐꞒꞖꞘꞚꞜꞞꞠꞢ" \o
  "ꞤꞦꞨꞰꞱꞲꞴꞶꞸꞺꞼꞾꟀꟂꟄꟅꟆꟇꟉꟌ꟎Ꟑ꟒꟔ꟖꟘꟚꟜꟵ"

\* the lower-case letter of each character of UpperLetters, in the same order
LowerLetters ==
  "abcdefghijklmnopqrstuvwxyzàáâãäåæçèéêëìíîïðñòóôõöøùúûüýþƃƅƈƌ" \o
  "ǝƒƙơƣƥʀƨʃƭʈưʊʋƴƶʒƹƽǆǆǉǉǌǌǎǐǒǔǖǘǚǜǟǡǣǥǧǩǫǭǯǳǳǵƕƿǹǻǽǿάέήίόύώαβ" \o
  "γδεζηθικλμνξοπρστυφχψωϊϋϗϙϛϝϟϡϣϥϧϩϫϭϯθϸϲϻҁҋҍҏґғҕҗҙқҝҟҡңҥҧҩҫҭ" \o
  "үұҳҵҷҹһҽҿӏӂӄӆӈӊӌӎӑӓӕӗәӛӝӟӡӣӥӧөӫӭӯӱӳӵӷӹӻӽӿꮀꮁꮂꮃꮄꮅꮆꮇꮈꮉꮊꮋꮌꮍꮎꮏꮐꮑꮒ" \o
  "ꮓꮔꮕꮖꮗꮘꮙꮚꮛꮜꮝꮞꮟꮠꮡꮢꮣꮤꮥꮦꮧꮨꮩꮪꮫꮬꮭꮮꮯꮰꮱꮲꮳꮴꮵꮶꮷꮸꮹꮺꮻꮼꮽꮾꮿᏸᏹᏺᏻᏼᏽᲊაბგდევზთ" \o
  "იკლმნოპჟრსტუფქღყშჩცძწჭხჯჰჱჲჳჴჵჶჷჸჹჺჽჾჿẁẃẅẇẉẋẍẏẑẓẕßạảấầẩẫậắằẳ" \o
  "ẵặẹẻẽếềểễệỉịọỏốồổỗộớờởỡợụủứừửữựỳỵỷỹỻỽỿᾀᾁᾂᾃᾄᾅᾆᾇᾐᾑᾒᾓᾔᾕᾖᾗᾠᾡᾢᾣᾤᾥ" \o
  "ᾦᾧᾰᾱᾳῃῐῑῠῡῥῳↄⓐⓑⓒⓓⓔⓕⓖⓗⓘⓙⓚⓛⓜⓝⓞⓟⓠⓡⓢⓣⓤⓥⓦⓧⓨⓩⲁⲃⲅⲇⲉⲋⲍⲏⲑⲓⲕⲗⲙⲛⲝⲟⲡⲣⲥⲧⲩ" \o
  "ⲫⲭⲯⲱⲳⲵⲷⲹⲻⲽⲿⳁⳃⳅⳇⳉⳋⳍⳏⳑⳓⳕⳗⳙⳛⳝⳟⳡⳣⳬⳮⳳꚁꚃꚅꚇꚉꚋꚍꚏꚑꚓꚕꚗꚙꚛꞁꞃꞅꞇꞌꞑꞓꞗꞙꞛꞝꞟꞡꞣ" \o
  "ꞥꞧꞩʞʇʝꞵꞷꞹꞻꞽꞿꟁꟃꞔʂᶎꟈꟊꟍ꟏ꟑꟓꟕꟗꟙꟛƛꟶ"

\* the 94 characters that char::to_lowercase changes to a character no string can
\* hold (U+0181 to U+0253 is the first)
UpperOnly ==
  "ƁƆƉƊƏƐƓƔƖƗƜƝƟϽϾϿႠႡႢႣႤႥႦႧႨႩႪႫႬႭႮႯႰႱႲႳႴႵႶႷႸႹႺႻႼႽႾႿჀჁჂჃჄჅჇჍᎠᎡᎢᎣ" \o
  "ᎤᎥᎦᎧᎨᎩᎪᎫᎬᎭᎮᎯᾺΆῈΈῊΉῚΊῪΎῸΌῺΏꞍꞪꞫꞬꞭꞮꞳꟋ"

\* the Cased characters that are in none of UpperLetters, LowerLetters and UpperOnly
OtherCased ==
  "ªµºÿƀƍƚƞƪƫƺƾǰʁʄʅʆʉʌʍʎʏʐʑʓʖʗʘʙʚʛʜʟʠʡʢʣʤʥʦʧʨʩʪʫʬʭʮʯʰʱʲʳʴʵʶʷʸˀˁ" \o
  "ˠˡˢˣˤΐΰςϐϑϒϓϔϕϖϰϱϳϵϼրցւփքօֆևֈჼᲀᲁᲂᲃᲄᲅᲆᲇᲈᶀᶁᶂᶃᶄᶅᶆᶇᶈᶉᶊᶋᶌᶍᶏᶐᶑᶒᶓᶔᶕ" \o
  "ᶖᶗᶘᶙᶚᶛᶜᶝᶞᶟᶠᶡᶢᶣᶤᶥᶦᶧᶨᶩᶪᶫᶬᶭᶮᶯᶰᶱᶲᶳᶴᶵᶶᶷᶸᶹᶺᶻᶼᶽᶾᶿẖẗẘẙẚẛẜẝẟᾲᾴᾶᾷιῂῄῆῇ" \o
  "ῒΐῖῗῢΰῤῦῧῲῴῶῷₐₑₒₓₔₕₖₗₘₙₚₛₜⳤꚜꚝꞎꞕꞯ꟱ꟲꟳꟴꟸꟹꟺ"

\* the Case_Ignorable characters
CaseIgnorable ==
  "'.:^¨­¯´·¸ʰʱʲʳʴʵʶʷʸʹʺʻʼʽʾʿˀˁ˂˃˄˅ˆˇˈˉˊˋˌˍˎˏːˑ˒˓˔˕˖˗˘˙˚˛˜˝˞˟ˠˡ" \o
  "ˢˣˤ˥˦˧˨˩˪˫ˬ˭ˮ˯˰˱˲˳˴˵˶˷˸˹˺˻˼˽˾˿΄΅·҃҄҅҆҇҈҉֑֖֛֢֣֤֚֒֓֔֕֗֘֙֜֝֞֟֠֡" \o
  "ְֱֲֳִֵֶַָׇֹֺֻּֽֿׁׂ֥֦֧֪ׅ֭֮֨֩֫֬֯ׄ״ۖۗۘۙۚۛۜ۝ۣ۟۠ۡۢۤۥۦ۪ۭۧۨ۫۬ަާިީުޫ" \o
  "ެޭޮޯް߲߫߬߭߮߯߰߱߳ߴߵߺ߽࢈࢐࢑࢙࢚࢛ࢗ࢘࢜࢝࢞࢟ࣉ࣏࣐࣑࣒࣓࣊࣋࣌࣍࣎ࣔࣕࣖࣗࣘࣙࣚࣛࣜࣝࣞࣟ࣠࣡࣢ࣣࣦࣤࣥ" \o
  "ࣰࣱࣲࣩ࣭࣮࣯ࣶࣹࣺࣧࣨ࣪࣫࣬ࣳࣴࣵࣷࣸࣻࣼࣽࣾࣿঁ়ুূৃৄ্ৢৣ৾ઁં઼ુૂૃૄૅેૈ્ૢૣૺૻૼ૽૾૿ஂீ்ಁ಼ಿ" \o
  "ೆೌ್ೢೣඁ්ිීුූັິີຶື຺ຸູົຼໆ່້໊໋໌ໍ໎྄ཱྀྀྂྃ྆྇ྍྎྏྐྑྒྒྷྔྕྖྗྙྚྛྜྜྷྞྟྠྡྡྷྣྤྥ" \o
  "ྦྦྷྨྩྪྫྫྷྭྮྯྰྱྲླྴྵྶྷྸྐྵྺྻྼ࿆ႂႅႆႍႝჼ឴឵ិីឹឺុូួំ៉៊់៌៍៎៏័៑្៓ៗ៝ᢅᢆᢩᪧ᪰᪱᪲" \o
  "᪵᪶᪷᪸᪹᪺᪽᪳᪴᪻᪼᪾ᪿᫀ᫃᫄᫊᫁᫂᫅᫆᫇᫈᫉᫋ᫌᫍᫎ᫏᫐᫑᫒᫓᫔᫕᫖᫗᫘᫙᫚᫛᫜᫝᫠᫡᫢᫣᫤᫥᫦᫧᫨᫩᫪᫫ᮀᮁᮢᮣᮤ" \o
  "ᮥᮨᮩ᮫ᮬᮭ᯦ᯨᯩᯭᯯᯰᯱ᳔᳢᳣᳤᳥᳦᳧᳨᳕᳖᳗᳘᳙᳜᳝᳞᳟᳭᳐᳑᳒᳚᳛᳠᳴᳸᳹ᶛᶜᶝᶞᶟᶠᶡᶢᶣᶤᶥᶦᶧᶨᶩᶪᶫᶬᶭᶮ" \o
  "ᶯᶰᶱᶲᶳᶴᶵᶶᶷᶸᶹᶺᶻᶼᶽᶾᶿ᷐᷎᷂᷊᷏᷀᷁᷃᷄᷅᷆᷇᷈᷉᷋᷌᷑᷒ᷓᷔᷕᷖᷗᷘᷙᷚᷛᷜᷝᷞᷟᷠᷡᷢᷣᷤᷥᷦᷧᷨᷩᷪ᷍" \o
  "᷺᷹᷽᷿᷷᷸ᷫᷬᷭᷮᷯᷰᷱᷲᷳᷴ᷵᷻᷾᷶᷼᾽᾿῀῁῍῎῏῝῞῟῭΅`´῾ₐₑₒₓₔₕₖₗₘₙₚₛₜ⃒⃓⃘⃙⃚⃐⃑⃔⃕⃖⃗" \o
  "⃛⃜⃝⃞⃟⃠⃡⃢⃣⃤⃥⃦⃪⃫゙゚⃨⃬⃭⃮⃯⃧⃩⃰⳯⳰⳱ⷠⷡⷢⷣⷤⷥⷦⷧⷨⷩⷪⷫⷬⷭⷮⷯⷰⷱⷲⷳⷴⷵⷶⷷⷸⷹⷺⷻⷼⷽⷾⷿ゛" \o
  "゜ゝゞーヽヾꓸꓹꓺꓻꓼꓽꚜꚝꚞꚟ꛰꛱ꞈ꞉꞊꟱ꟲꟳꟴꟸꟹ꣄ꣅ꣠꣡꣢꣣꣤꣥꣦꣧꣨꣩꣪꣫꣬꣭꣮꣯꣰꣱ꣿꦀꦁꦂ꦳ꦶꦷꦸꦹꦼꦽꧏꧥ" \o
  "ꧦꪴꪰꪲꪳꪷꪸꪾ꪿꫁ꫝꫬꫭꫳꫴ꫶ꯥꯨ꯭﮲﮳﮴﮵﮶﮷﮸﮹﮺﮻﮼﮽﮾﮿﯀﯁﯂﻿ﾞﾟ￣￹￺￻"

\* the characters that char::to_lowercase changes
Changed == Chars(UpperLetters) \cup Chars(UpperOnly)

\* char::to_lowercase as a table: it has no row for the characters of UpperOnly
LowerOf ==
  [c \in Chars(UpperLetters) |->
     CharAt(LowerLetters, CHOOSE i \in 1..Len(UpperLetters) : CharAt(UpperLetters, i) = c)]

\* char::to_lowercase; it has no value on a character of UpperOnly, the lower-case
\* letter being nothing a string can hold
LowerChar(c) == IF c \in Changed THEN LowerOf[c] ELSE c

\* core::unicode::Cased
Cased ==
  Chars(UpperLetters) \cup Chars(LowerLetters) \cup Chars(UpperOnly) \cup Chars(OtherCased)

\* core::unicode::Case_Ignorable
Case_Ignorable == Chars(CaseIgnorable)

RECURSIVE case_ignorable_then_cased(_, _, _)
\* case_ignorable_then_cased on the characters of s from position i on, taken in
\* steps of d (1: forwards, -1: backwards): the first that is not Case_Ignorable
\* is Cased
case_ignorable_then_cased(s, i, d) ==
  IF i < 1 \/ i > Len(s) THEN FALSE
  ELSE IF CharAt(s, i) \in Case_Ignorable THEN case_ignorable_then_cased(s, i + d, d)
  ELSE CharAt(s, i) \in Cased

\* map_uppercase_sigma: what the capital sigma at position i of s becomes, the final
\* sigma at the end of a word and the small sigma elsewhere
map_uppercase_sigma(s, i) ==
  IF case_ignorable_then_cased(s, i - 1, -1) /\ ~case_ignorable_then_cased(s, i + 1, 1)
    THEN "ς"
    ELSE "σ"

RECURSIVE LowerFrom(_, _)
\* the lower case of s from position i on
LowerFrom(s, i) ==
  IF i > Len(s) THEN ""
  ELSE (IF CharAt(s, i) = "Σ" THEN map_uppercase_sigma(s, i) ELSE LowerChar(CharAt(s, i)))
         \o LowerFrom(s, i + 1)

RECURSIVE to_lowercase_AsciiOnly(_)
\* a to_lowercase that lowers the letters A to Z only (str::to_ascii_lowercase)
to_lowercase_AsciiOnly(s) ==
  IF Len(s) = 0 THEN ""
  ELSE (IF CharAt(s, 1) \in Chars(SubSeq(UpperLetters, 1, 26))
          THEN LowerChar(CharAt(s, 1))
          ELSE CharAt(s, 1)) \o to_lowercase_AsciiOnly(SubSeq(s, 2, Len(s)))

\* str::to_lowercase
to_lowercase(s) == LowerFrom(s, 1)

RECURSIVE FindFrom(_, _, _)
\* the offset (from 1) of the first occurrence of pat in s at or after i, 0 when there is none
FindFrom(s, pat, i) ==
  IF i + Len(pat) - 1 > Len(s) THEN 0
  ELSE IF SubSeq(s, i, i + Len(pat) - 1) = pat THEN i
  ELSE FindFrom(s, pat, i + 1)

\* str::find, from 1, 0 for None
Find(s, pat) == FindFrom(s, pat, 1)

\* str::contains(&str)
contains(h, n) == Find(h, n) # 0

\* str::starts_with
starts_with(s, p) == Len(s) >= Len(p) /\ SubSeq(s, 1, Len(p)) = p

\* s.split(pat).next(): the text before the first pat, all of s when there is none
BeforeFirst(s, pat) ==
  LET k == Find(s, pat) IN IF k = 0 THEN s ELSE SubSeq(s, 1, k - 1)

\* the characters with the Unicode property White_Space that a string can hold here:
\* U+0009..U+000D, U+0020, U+0085, U+00A0 and U+1680, in that order (all but \t, \n,
\* \f and \r are written as the character itself).  The others of the property,
\* U+2000..U+200A, U+2028, U+2029, U+202F, U+205F and U+3000, are no characters of
\* a TLA+ string, so no string of the model holds one.
White_Space == {"\t", "\n", "", "\f", "\r", " ", "", " ", " "}

\* char::is_whitespace
IsSpace(c) == c \in White_Space

RECURSIVE trim_start(_)
trim_start(s) ==
  IF Len(s) > 0 /\ IsSpace(CharAt(s, 1)) THEN trim_start(SubSeq(s, 2, Len(s))) ELSE s

RECURSIVE trim_end(_)
trim_end(s) ==
  IF Len(s) > 0 /\ IsSpace(CharAt(s, Len(s))) THEN trim_end(SubSeq(s, 1, Len(s) - 1)) ELSE s

\* str::trim
trim(s) == trim_end(trim_start(s))

\* a line that ended in "\n", without the "\r" of a "\r\n" ending
StripCr(line) ==
  IF Len(line) > 0 /\ CharAt(line, Len(line)) = "\r" THEN SubSeq(line, 1, Len(line) - 1) ELSE line

RECURSIVE lines(_)
\* str::lines: split at every "\n" or "\r\n"; a final line ending needs no line after
\* it, and a last line that has no "\n" is kept as it is
lines(s) ==
  LET k == Find(s, "\n")
  IN  IF Len(s) = 0 THEN <<>>
      ELSE IF k = 0 THEN <<s>>
      ELSE <<StripCr(SubSeq(s, 1, k - 1))>> \o lines(SubSeq(s, k + 1, Len(s)))

RECURSIVE splitn(_, _, _)
\* str::splitn(n, pat): at most n pieces, the last one holding the rest
splitn(n, s, pat) ==
  LET k == Find(s, pat)
  IN  IF n <= 1 \/ k = 0 THEN <<s>>
      ELSE <<SubSeq(s, 1, k - 1)>> \o splitn(n - 1, SubSeq(s, k + Len(pat), Len(s)), pat)

\* String::pop: drop the last character, nothing to drop on the empty string
pop(s) == IF Len(s) = 0 THEN s ELSE SubSeq(s, 1, Len(s) - 1)

\* String::push
push(s, c) == s \o c

-----------------------------------------------------------------------------
(* Results (anyhow::Result) and the outcome of a spawned `git` process.    *)

Ok(v) == [ok |-> TRUE, val |-> v]

Err(d) == [ok |-> FALSE, val |-> d]

\* Command::output() failed (spawned = FALSE) or gave an exit status and two streams
Proc(spawned, success, stdout, stderr) ==
  [spawned |-> spawned, success |-> success, stdout |-> stdout, stderr |-> stderr]

NoSpawn == Proc(FALSE, FALSE, "", "")

-----------------------------------------------------------------------------
(* git.rs: the gateway.  Each operator takes the outcome p of the process  *)
(* the function spawns and yields the function's Result.                   *)

\* BranchOf without the trim
BranchOf_NoTrim(message) ==
  IF starts_with(message, "WIP on ")
    THEN BeforeFirst(SubSeq(message, Len("WIP on ") + 1, Len(message)), ":")
  ELSE IF starts_with(message, "On ")
    THEN BeforeFirst(SubSeq(message, Len("On ") + 1, Len(message)), ":")
  ELSE "unknown"

\* the part of a stash message after "WIP on " / "On ", up to the first ':', trimmed
BranchOf(message) ==
  IF starts_with(message, "WIP on ")
    THEN trim(BeforeFirst(SubSeq(message, Len("WIP on ") + 1, Len(message)), ":"))
  ELSE IF starts_with(message, "On ")
    THEN trim(BeforeFirst(SubSeq(message, Len("On ") + 1, Len(message)), ":"))
  ELSE "unknown"

\* message.splitn(2, ": ").nth(1).unwrap_or(&message)
ShortMsgOf(message) ==
  LET parts == splitn(2, message, ": ")
  IN  IF Len(parts) >= 2 THEN parts[2] ELSE message

\* the Stash built from line number i (from 0) of `git stash list`
StashOfLine(i, line) ==
  LET parts == splitn(3, line, "|")
  IN  [index     |-> i,
       name      |-> parts[1],
       message   |-> parts[2],
       branch    |-> BranchOf(parts[2]),
       short_msg |-> ShortMsgOf(parts[2]),
       date      |-> parts[3]]

RECURSIVE ParseFrom(_, _)
\* the loop of list_stashes from line number i on: a line with fewer than 3 fields is skipped
ParseFrom(ls, i) ==
  IF i >= Len(ls) THEN <<>>
  ELSE IF Len(splitn(3, ls[i + 1], "|")) < 3 THEN ParseFrom(ls, i + 1)
  ELSE <<StashOfLine(i, ls[i + 1])>> \o ParseFrom(ls, i + 1)

list_stashes(p) ==
  IF ~p.spawned THEN Err("Failed to run git stash list")
  ELSE Ok(ParseFrom(lines(p.stdout), 0))

stash_diff(p) ==
  IF ~p.spawned THEN Err("Failed to get stash diff") ELSE Ok(p.stdout)

stash_files(p) ==
  IF ~p.spawned THEN Err("Failed to get stash file list") ELSE Ok(p.stdout)

apply_stash(p) ==
  IF ~p.spawned THEN Err("Failed to apply stash")
  ELSE IF p.success THEN Ok(p.stdout)
  ELSE Err("Failed to apply stash: " \o p.stderr)

pop_stash(p) ==
  IF ~p.spawned THEN Err("Failed to pop stash")
  ELSE IF p.success THEN Ok(p.stdout)
  ELSE Err("Failed to pop stash: " \o p.stderr)

drop_stash(p) ==
  IF ~p.spawned THEN Err("Failed to drop stash")
  ELSE IF p.success THEN Ok("")
  ELSE Err("Failed to drop stash: " \o p.stderr)

push_stash(p) ==
  IF ~p.spawned THEN Err("Failed to push stash")
  ELSE IF p.success THEN Ok("")
  ELSE Err("Failed to create stash: " \o p.stderr)

current_branch(p) ==
  IF ~p.spawned THEN Err("Failed to get current branch") ELSE Ok(trim(p.stdout))

\* Result::unwrap_or_default on a Result<String>
unwrap_or_default(r) == IF r.ok THEN r.val ELSE ""

-----------------------------------------------------------------------------
(* What the `git` processes can answer, within the bounds.                 *)

Messages == {"WIP on dev: Ab", "On Dev: x"}

Digits == "0123456789"

StashName(i) == "stash@{" \o CharAt(Digits, i + 1) \o "}"

RECURSIVE StashListText(_, _)
\* the output of `git stash list --format=%gd|%gs|%cr` for the messages ms, from entry i on
StashListText(ms, i) ==
  IF i >= Len(ms) THEN ""
  ELSE StashName(i) \o "|" \o ms[i + 1] \o "|2 days ago\n" \o StashListText(ms, i + 1)

StashListTexts ==
  {StashListText(ms, 0) : ms \in UNION {[1..n -> Messages] : n \in 0..MaxStashes}}

ListProcs == {NoSpawn} \cup {Proc(TRUE, TRUE, t, "") : t \in StashListTexts}

\* what list_stashes() can return
ListResults == {list_stashes(p) : p \in ListProcs}

BranchProcs == {NoSpawn, Proc(TRUE, TRUE, "main\n", "")}

\* what current_branch() can return
BranchResults == {current_branch(p) : p \in BranchProcs}

DiffTexts == {"+a\r\n-b\n"}

FilesTexts == {""}

DiffProcs == {NoSpawn} \cup {Proc(TRUE, TRUE, t, "") : t \in DiffTexts}

FilesProcs == {NoSpawn} \cup {Proc(TRUE, TRUE, t, "") : t \in FilesTexts}

MutProcs == {NoSpawn, Proc(TRUE, TRUE, "", ""), Proc(TRUE, FALSE, "", "not found")}

\* a gateway call as the step's log keeps it: the function, its argument, its Result
Call(op, arg, res) == [op |-> op, arg |-> arg, res |-> res]

-----------------------------------------------------------------------------------------------------------------------------------------------------
(* app.rs: Mode, App and its methods.  A method that returns a Result or   *)
(* calls the gateway yields Done(app after, Result, gateway calls made).   *)
(* Where the source evaluates self.selected_stash(), the operator takes    *)
(* its value as the parameter sel.                                         *)

Normal == [tag |-> "Normal"]

Diff == [tag |-> "Diff"]

Files == [tag |-> "Files"]

Confirm(action) == [tag |-> "Confirm", action |-> action]

NewStash == [tag |-> "NewStash"]

Message(text) == [tag |-> "Message", text |-> text]

None == [some |-> FALSE]

Some(v) == [some |-> TRUE, val |-> v]

\* the value of ()
Unit == "()"

Done(a, res, calls) == [app |-> a, res |-> res, calls |-> calls]

\* App::new, for the Ok value l of list_stashes() and the Result b of current_branch()
new(l, b) ==
  [stashes             |-> l.val,
   selected            |-> 0,
   mode                |-> Normal,
   diff_content        |-> <<>>,
   diff_scroll         |-> 0,
   search_query        |-> "",
   searching           |-> FALSE,
   new_stash_input     |-> "",
   new_stash_untracked |-> FALSE,
   status_msg          |-> None,
   current_branch      |-> unwrap_or_default(b)]

\* reload without the clamp of selected
reload_NoClamp(a, l, b) ==
  IF ~l.ok
    THEN Done(a, l, <<Call("list_stashes", "", l)>>)
    ELSE Done([a EXCEPT !.stashes = l.val, !.current_branch = unwrap_or_default(b)],
              Ok(Unit),
              <<Call("list_stashes", "", l), Call("current_branch", "", b)>>)

\* reload that puts selected back to 0 when the fetched collection is empty
reload_ZeroOnEmpty(a, l, b) ==
  IF ~l.ok
    THEN Done(a, l, <<Call("list_stashes", "", l)>>)
    ELSE Done([a EXCEPT !.stashes = l.val,
                        !.current_branch = unwrap_or_default(b),
                        !.selected = IF a.selected >= Len(l.val)
                                       THEN (IF Len(l.val) = 0 THEN 0 ELSE Len(l.val) - 1)
                                       ELSE a.selected],
              Ok(Unit),
              <<Call("list_stashes", "", l), Call("current_branch", "", b)>>)

\* reload that takes the default (empty) collection and branch when the fetch fails
reload_ClearOnError(a, l, b) ==
  IF ~l.ok
    THEN Done([a EXCEPT !.stashes = <<>>, !.current_branch = ""], l,
              <<Call("list_stashes", "", l)>>)
    ELSE Done([a EXCEPT !.stashes = l.val,
                        !.current_branch = unwrap_or_default(b),
                        !.selected = IF a.selected >= Len(l.val) /\ Len(l.val) # 0
                                       THEN Len(l.val) - 1
                                       ELSE a.selected],
              Ok(Unit),
              <<Call("list_stashes", "", l), Call("current_branch", "", b)>>)

\* reload, for the Result l of list_stashes() and the Result b of current_branch()
reload(a, l, b) ==
  IF ~l.ok
    THEN Done(a, l, <<Call("list_stashes", "", l)>>)
    ELSE Done([a EXCEPT !.stashes = l.val,
                        !.current_branch = unwrap_or_default(b),
                        !.selected = IF a.selected >= Len(l.val) /\ Len(l.val) # 0
                                       THEN Len(l.val) - 1
                                       ELSE a.selected],
              Ok(Unit),
              <<Call("list_stashes", "", l), Call("current_branch", "", b)>>)

\* the filter closure that looks at short_msg only
Matches_ShortOnly(s, q) == contains(to_lowercase(s.short_msg), q)

\* the filter closure of filtered_stashes, q being the lowercased query
Matches(s, q) ==
  contains(to_lowercase(s.short_msg), q) \/ contains(to_lowercase(s.branch), q)

\* the stashes that match q, in order
Filter(stashes, q) ==
  LET keep(s) == Matches(s, q) IN SelectSeq(stashes, keep)

filtered_stashes(a) ==
  IF Len(a.search_query) = 0
    THEN a.stashes
    ELSE Filter(a.stashes, to_lowercase(a.search_query))

\* Vec::get(i).copied()
Get(v, i) == IF i < Len(v) THEN Some(v[i + 1]) ELSE None

selected_stash(a) == Get(filtered_stashes(a), a.selected)

\* the body of `if let Some(stash)` in load_diff and load_files, raw being the gateway's Result
Loaded(a, call) ==
  IF ~call.res.ok
    THEN Done(a, call.res, <<call>>)
    ELSE Done([a EXCEPT !.diff_content = lines(call.res.val), !.diff_scroll = 0],
              Ok(Unit), <<call>>)

load_diff(a, sel, p) ==
  IF sel.some
    THEN Loaded(a, Call("stash_diff", sel.val.name, stash_diff(p)))
    ELSE Done(a, Ok(Unit), <<>>)

load_files(a, sel, p) ==
  IF sel.some
    THEN Loaded(a, Call("stash_files", sel.val.name, stash_files(p)))
    ELSE Done(a, Ok(Unit), <<>>)

move_up(a) ==
  IF a.selected > 0 THEN [a EXCEPT !.selected = a.selected - 1] ELSE a

\* move_down, len being self.filtered_stashes().len()
MoveDown(a, len) ==
  IF len > 0 /\ a.selected < len - 1 THEN [a EXCEPT !.selected = a.selected + 1] ELSE a

move_down(a) == MoveDown(a, Len(filtered_stashes(a)))

scroll_diff_up(a) ==
  IF a.diff_scroll > 0 THEN [a EXCEPT !.diff_scroll = a.diff_scroll - 1] ELSE a

\* scroll_diff_down with the bound off by one
scroll_diff_down_OffByOne(a) ==
  IF a.diff_scroll < Len(a.diff_content)
    THEN [a EXCEPT !.diff_scroll = a.diff_scroll + 1]
    ELSE a

scroll_diff_down(a) ==
  IF a.diff_scroll + 1 < Len(a.diff_content)
    THEN [a EXCEPT !.diff_scroll = a.diff_scroll + 1]
    ELSE a

-----------------------------------------------------------------------------
(* events.rs: the key handlers.  A key is a KeyCode; c is the character of *)
(* KeyCode::Char and "" otherwise.  gw holds the outcome of each process a *)
(* handler may spawn, gw.content (stash show) and gw.mut (apply, pop, drop,*)
(* push), and the Results of the calls a reload makes, gw.list             *)
(* (list_stashes) and gw.branch (current_branch).  A handler yields        *)
(* Done(app after, its Result<bool>, gateway calls made).                  *)

Key(code) == [code |-> code, c |-> ""]

Char(c) == [code |-> "Char", c |-> c]

Gw(content, mut, list, branch) ==
  [content |-> content, mut |-> mut, list |-> list, branch |-> branch]

\* the step count of PageUp / PageDown
PAGE == 20

RECURSIVE PageUp(_, _)
\* for _ in 0..n { app.scroll_diff_up(); }
PageUp(n, a) == IF n = 0 THEN a ELSE PageUp(n - 1, scroll_diff_up(a))

\* PageDown that moves by one line only
PageDown_Once(n, a) == scroll_diff_down(a)

RECURSIVE PageDown(_, _)
\* for _ in 0..n { app.scroll_diff_down(); }
PageDown(n, a) == IF n = 0 THEN a ELSE PageDown(n - 1, scroll_diff_down(a))

\* `app.load_diff()?; app.mode = mode;` for the outcome r of the load
EnterView(r, mode) ==
  IF ~r.res.ok THEN r ELSE Done([r.app EXCEPT !.mode = mode], Ok(FALSE), r.calls)

\* AskConfirm without the test of selected_stash()
AskConfirm_Always(a, sel, action) ==
  Done([a EXCEPT !.mode = Confirm(action)], Ok(FALSE), <<>>)

\* `if app.selected_stash().is_some() { app.mode = Mode::Confirm(action) }`
AskConfirm(a, sel, action) ==
  Done(IF sel.some THEN [a EXCEPT !.mode = Confirm(action)] ELSE a, Ok(FALSE), <<>>)

\* handle_search with an Escape that keeps the query
handle_search_EscKeepsQuery(a, key) ==
  CASE key = Key("Esc") ->
         Done([a EXCEPT !.searching = FALSE, !.selected = 0], Ok(FALSE), <<>>)
    [] key = Key("Enter") ->
         Done([a EXCEPT !.searching = FALSE], Ok(FALSE), <<>>)
    [] key = Key("Backspace") ->
         Done([a EXCEPT !.search_query = pop(a.search_query), !.selected = 0],
              Ok(FALSE), <<>>)
    [] key.code = "Char" ->
         Done([a EXCEPT !.search_query = push(a.search_query, key.c), !.selected = 0],
              Ok(FALSE), <<>>)
    [] OTHER -> Done(a, Ok(FALSE), <<>>)

\* handle_search with an Enter that clears the query
handle_search_EnterClears(a, key) ==
  CASE key = Key("Esc") ->
         Done([a EXCEPT !.searching = FALSE, !.search_query = "", !.selected = 0],
              Ok(FALSE), <<>>)
    [] key = Key("Enter") ->
         Done([a EXCEPT !.searching = FALSE, !.search_query = ""], Ok(FALSE), <<>>)
    [] key = Key("Backspace") ->
         Done([a EXCEPT !.search_query = pop(a.search_query), !.selected = 0],
              Ok(FALSE), <<>>)
    [] key.code = "Char" ->
         Done([a EXCEPT !.search_query = push(a.search_query, key.c), !.selected = 0],
              Ok(FALSE), <<>>)
    [] OTHER -> Done(a, Ok(FALSE), <<>>)

\* handle_search in which `c` clears the query as it does outside search-entry
handle_search_ClearActs(a, key) ==
  CASE key = Key("Esc") ->
         Done([a EXCEPT !.searching = FALSE, !.search_query = "", !.selected = 0],
              Ok(FALSE), <<>>)
    [] key = Key("Enter") ->
         Done([a EXCEPT !.searching = FALSE], Ok(FALSE), <<>>)
    [] key = Key("Backspace") ->
         Done([a EXCEPT !.search_query = pop(a.search_query), !.selected = 0],
              Ok(FALSE), <<>>)
    [] key = Char("c") ->
         Done([a EXCEPT !.search_query = "", !.selected = 0], Ok(FALSE), <<>>)
    [] key.code = "Char" /\ key # Char("c") ->
         Done([a EXCEPT !.search_query = push(a.search_query, key.c), !.selected = 0],
              Ok(FALSE), <<>>)
    [] OTHER -> Done(a, Ok(FALSE), <<>>)

\* the branch of handle_normal taken while app.searching
handle_search(a, key) ==
  CASE key = Key("Esc") ->
         Done([a EXCEPT !.searching = FALSE, !.search_query = "", !.selected = 0],
              Ok(FALSE), <<>>)
    [] key = Key("Enter") ->
         Done([a EXCEPT !.searching = FALSE], Ok(FALSE), <<>>)
    [] key = Key("Backspace") ->
         Done([a EXCEPT !.search_query = pop(a.search_query), !.selected = 0],
              Ok(FALSE), <<>>)
    [] key.code = "Char" ->
         Done([a EXCEPT !.search_query = push(a.search_query, key.c), !.selected = 0],
              Ok(FALSE), <<>>)
    [] OTHER -> Done(a, Ok(FALSE), <<>>)

handle_normal(a, key, gw, sel) ==
  IF a.searching THEN handle_search(a, key)
  ELSE
    CASE key \in {Char("q"), Key("Esc")} -> Done(a, Ok(TRUE), <<>>)
      [] key \in {Key("Up"), Char("k")} -> Done(move_up(a), Ok(FALSE), <<>>)
      [] key \in {Key("Down"), Char("j")} -> Done(move_down(a), Ok(FALSE), <<>>)
      [] key \in {Key("Enter"), Char("d")} ->
           IF sel.some THEN EnterView(load_diff(a, sel, gw.content), Diff)
           ELSE Done(a, Ok(FALSE), <<>>)
      [] key = Char("f") ->
           IF sel.some THEN EnterView(load_files(a, sel, gw.content), Files)
           ELSE Done(a, Ok(FALSE), <<>>)
      [] key = Char("a") -> AskConfirm(a, sel, "Apply")
      [] key = Char("p") -> AskConfirm(a, sel, "Pop")
      [] key \in {Char("x"), Key("Delete")} -> AskConfirm(a, sel, "Drop")
      [] key = Char("n") ->
           Done([a EXCEPT !.new_stash_input = "", !.new_stash_untracked = FALSE,
                          !.mode = NewStash],
                Ok(FALSE), <<>>)
      [] key = Char("/") ->
           Done([a EXCEPT !.search_query = "", !.searching = TRUE, !.selected = 0],
                Ok(FALSE), <<>>)
      [] key = Char("c") ->
           Done([a EXCEPT !.search_query = "", !.selected = 0], Ok(FALSE), <<>>)
      [] OTHER -> Done(a, Ok(FALSE), <<>>)

\* handle_scroll whose Up / k also moves the selection
handle_scroll_MovesSelection(a, key) ==
  CASE key \in {Key("Esc"), Char("q")} -> Done([a EXCEPT !.mode = Normal], Ok(FALSE), <<>>)
    [] key \in {Key("Up"), Char("k")} -> Done(scroll_diff_up(move_up(a)), Ok(FALSE), <<>>)
    [] key \in {Key("Down"), Char("j")} -> Done(scroll_diff_down(a), Ok(FALSE), <<>>)
    [] key = Key("PageUp") -> Done(PageUp(PAGE, a), Ok(FALSE), <<>>)
    [] key = Key("PageDown") -> Done(PageDown(PAGE, a), Ok(FALSE), <<>>)
    [] OTHER -> Done(a, Ok(FALSE), <<>>)

handle_scroll(a, key) ==
  CASE key \in {Key("Esc"), Char("q")} -> Done([a EXCEPT !.mode = Normal], Ok(FALSE), <<>>)
    [] key \in {Key("Up"), Char("k")} -> Done(scroll_diff_up(a), Ok(FALSE), <<>>)
    [] key \in {Key("Down"), Char("j")} -> Done(scroll_diff_down(a), Ok(FALSE), <<>>)
    [] key = Key("PageUp") -> Done(PageUp(PAGE, a), Ok(FALSE), <<>>)
    [] key = Key("PageDown") -> Done(PageDown(PAGE, a), Ok(FALSE), <<>>)
    [] OTHER -> Done(a, Ok(FALSE), <<>>)

\* the error text without its prefix
ErrorText_NoPrefix(e) == e

\* format!("Error: {e}")
ErrorText(e) == "Error: " \o e

\* format!("Stash '{}' created.", msg)
CreatedText(msg) == "Stash '" \o msg \o "' created."

\* ConfirmCall with the Pop arm calling drop_stash
ConfirmCall_PopDrops(action, stash_name, p) ==
  CASE action = "Apply" ->
         [call |-> Call("apply_stash", stash_name, apply_stash(p)),
          msg  |-> "Stash applied successfully."]
    [] action = "Pop" ->
         [call |-> Call("drop_stash", stash_name, drop_stash(p)),
          msg  |-> "Stash popped successfully."]
    [] action = "Drop" ->
         [call |-> Call("drop_stash", stash_name, drop_stash(p)),
          msg  |-> "Stash dropped."]

\* ConfirmCall that always names the newest stash
ConfirmCall_NewestStash(action, stash_name, p) ==
  CASE action = "Apply" ->
         [call |-> Call("apply_stash", "stash@{0}", apply_stash(p)),
          msg  |-> "Stash applied successfully."]
    [] action = "Pop" ->
         [call |-> Call("pop_stash", "stash@{0}", pop_stash(p)),
          msg  |-> "Stash popped successfully."]
    [] action = "Drop" ->
         [call |-> Call("drop_stash", "stash@{0}", drop_stash(p)),
          msg  |-> "Stash dropped."]

\* the gateway call handle_confirm makes for an action, and its success text
ConfirmCall(action, stash_name, p) ==
  CASE action = "Apply" ->
         [call |-> Call("apply_stash", stash_name, apply_stash(p)),
          msg  |-> "Stash applied successfully."]
    [] action = "Pop" ->
         [call |-> Call("pop_stash", stash_name, pop_stash(p)),
          msg  |-> "Stash popped successfully."]
    [] action = "Drop" ->
         [call |-> Call("drop_stash", stash_name, drop_stash(p)),
          msg  |-> "Stash dropped."]

\* the Ok arm of `match result`: `app.reload()?; app.mode = Mode::Message(msg);`
\* for the gateway call made and the outcome r of the reload
Reloaded(r, call, msg) ==
  IF ~r.res.ok
    THEN Done(r.app, r.res, <<call>> \o r.calls)
    ELSE Done([r.app EXCEPT !.mode = Message(msg)], Ok(FALSE), <<call>> \o r.calls)

\* MatchResult that empties the collection when the gateway call fails
MatchResult_ClearsOnFailure(a, call, msg, gw) ==
  IF call.res.ok
    THEN Reloaded(reload(a, gw.list, gw.branch), call, msg)
    ELSE Done([a EXCEPT !.mode = Message(ErrorText(call.res.val)), !.stashes = <<>>],
              Ok(FALSE), <<call>>)

\* `match result` of handle_confirm and `match git::push_stash(..)` of handle_new_stash
MatchResult(a, call, msg, gw) ==
  IF call.res.ok
    THEN Reloaded(reload(a, gw.list, gw.branch), call, msg)
    ELSE Done([a EXCEPT !.mode = Message(ErrorText(call.res.val))], Ok(FALSE), <<call>>)

\* `match result` of handle_confirm, c being the call made and its success text
ConfirmResult(a, c, gw) == MatchResult(a, c.call, c.msg, gw)

\* handle_confirm whose `n` / Escape also puts the selection back to 0
handle_confirm_CancelResets(a, key, action, gw, sel) ==
  CASE key \in {Char("y"), Key("Enter")} ->
         IF sel.some
           THEN ConfirmResult(a, ConfirmCall(action, sel.val.name, gw.mut), gw)
           ELSE Done(a, Ok(FALSE), <<>>)
    [] key \in {Char("n"), Key("Esc")} ->
         Done([a EXCEPT !.mode = Normal, !.selected = 0], Ok(FALSE), <<>>)
    [] OTHER -> Done(a, Ok(FALSE), <<>>)

handle_confirm(a, key, action, gw, sel) ==
  CASE key \in {Char("y"), Key("Enter")} ->
         IF sel.some
           THEN ConfirmResult(a, ConfirmCall(action, sel.val.name, gw.mut), gw)
           ELSE Done(a, Ok(FALSE), <<>>)
    [] key \in {Char("n"), Key("Esc")} -> Done([a EXCEPT !.mode = Normal], Ok(FALSE), <<>>)
    [] OTHER -> Done(a, Ok(FALSE), <<>>)

\* the arguments handle_new_stash gives push_stash, as the log keeps them
PushArg(msg, untracked) == [message |-> msg, include_untracked |-> untracked]

\* the Enter arm of handle_new_stash, msg being the trimmed input
Create(a, msg, gw) ==
  IF Len(msg) # 0
    THEN MatchResult(a, Call("push_stash", PushArg(msg, a.new_stash_untracked),
                             push_stash(gw.mut)),
                     CreatedText(msg), gw)
    ELSE Done(a, Ok(FALSE), <<>>)

\* handle_new_stash that does not trim the input
handle_new_stash_NoTrim(a, key, gw) ==
  CASE key = Key("Esc") -> Done([a EXCEPT !.mode = Normal], Ok(FALSE), <<>>)
    [] key = Key("Enter") -> Create(a, a.new_stash_input, gw)
    [] key = Key("Backspace") ->
         Done([a EXCEPT !.new_stash_input = pop(a.new_stash_input)], Ok(FALSE), <<>>)
    [] key = Char("u") /\ Len(a.new_stash_input) = 0 ->
         Done([a EXCEPT !.new_stash_untracked = ~a.new_stash_untracked], Ok(FALSE), <<>>)
    [] key.code = "Char" /\ ~(key = Char("u") /\ Len(a.new_stash_input) = 0) ->
         Done([a EXCEPT !.new_stash_input = push(a.new_stash_input, key.c)], Ok(FALSE), <<>>)
    [] key = Key("Tab") ->
         Done([a EXCEPT !.new_stash_untracked = ~a.new_stash_untracked], Ok(FALSE), <<>>)
    [] OTHER -> Done(a, Ok(FALSE), <<>>)

\* handle_new_stash whose `u` toggles the flag whatever the input holds
handle_new_stash_UAlwaysToggles(a, key, gw) ==
  CASE key = Key("Esc") -> Done([a EXCEPT !.mode = Normal], Ok(FALSE), <<>>)
    [] key = Key("Enter") -> Create(a, trim(a.new_stash_input), gw)
    [] key = Key("Backspace") ->
         Done([a EXCEPT !.new_stash_input = pop(a.new_stash_input)], Ok(FALSE), <<>>)
    [] key = Char("u") ->
         Done([a EXCEPT !.new_stash_untracked = ~a.new_stash_untracked], Ok(FALSE), <<>>)
    [] key.code = "Char" /\ key # Char("u") ->
         Done([a EXCEPT !.new_stash_input = push(a.new_stash_input, key.c)], Ok(FALSE), <<>>)
    [] key = Key("Tab") ->
         Done([a EXCEPT !.new_stash_untracked = ~a.new_stash_untracked], Ok(FALSE), <<>>)
    [] OTHER -> Done(a, Ok(FALSE), <<>>)

\* handle_new_stash whose `u` is a character like any other
handle_new_stash_UAppends(a, key, gw) ==
  CASE key = Key("Esc") -> Done([a EXCEPT !.mode = Normal], Ok(FALSE), <<>>)
    [] key = Key("Enter") -> Create(a, trim(a.new_stash_input), gw)
    [] key = Key("Backspace") ->
         Done([a EXCEPT !.new_stash_input = pop(a.new_stash_input)], Ok(FALSE), <<>>)
    [] key.code = "Char" ->
         Done([a EXCEPT !.new_stash_input = push(a.new_stash_input, key.c)], Ok(FALSE), <<>>)
    [] key = Key("Tab") ->
         Done([a EXCEPT !.new_stash_untracked = ~a.new_stash_untracked], Ok(FALSE), <<>>)
    [] OTHER -> Done(a, Ok(FALSE), <<>>)

handle_new_stash(a, key, gw) ==
  CASE key = Key("Esc") -> Done([a EXCEPT !.mode = Normal], Ok(FALSE), <<>>)
    [] key = Key("Enter") -> Create(a, trim(a.new_stash_input), gw)
    [] key = Key("Backspace") ->
         Done([a EXCEPT !.new_stash_input = pop(a.new_stash_input)], Ok(FALSE), <<>>)
    [] key = Char("u") /\ Len(a.new_stash_input) = 0 ->
         Done([a EXCEPT !.new_stash_untracked = ~a.new_stash_untracked], Ok(FALSE), <<>>)
    [] key.code = "Char" /\ ~(key = Char("u") /\ Len(a.new_stash_input) = 0) ->
         Done([a EXCEPT !.new_stash_input = push(a.new_stash_input, key.c)], Ok(FALSE), <<>>)
    [] key = Key("Tab") ->
         Done([a EXCEPT !.new_stash_untracked = ~a.new_stash_untracked], Ok(FALSE), <<>>)
    [] OTHER -> Done(a, Ok(FALSE), <<>>)

\* event::poll gave nothing within the 100 ms
Timeout == Key("Timeout")

\* an event that is not a key press
NotAKey == Key("Resize")

\* `event::poll(..)?` fails with the io::Error e
PollFailed(e) == [code |-> "PollFailed", c |-> e]

\* poll reports an event and `event::read()?` fails with the io::Error e
ReadFailed(e) == [code |-> "ReadFailed", c |-> e]

\* the `?` of poll or of read returns its error
IoFailed(ev) == ev.code \in {"PollFailed", "ReadFailed"}

\* `handler(..)?` as a match arm, then `Ok(false)`: the handler's error is returned,
\* the bool it returns is dropped
Arm(h) == IF ~h.res.ok THEN h ELSE Done(h.app, Ok(FALSE), h.calls)

\* handle_events whose Message arm also puts the selection back to 0
handle_events_DismissResets(a, ev, gw, sel) ==
  IF IoFailed(ev) THEN Done(a, Err(ev.c), <<>>)
  ELSE IF ev \in {Timeout, NotAKey} THEN Done(a, Ok(FALSE), <<>>)
  ELSE
    CASE a.mode = Normal -> Arm(handle_normal(a, ev, gw, sel))
      [] a.mode \in {Diff, Files} -> Arm(handle_scroll(a, ev))
      [] a.mode.tag = "Confirm" -> Arm(handle_confirm(a, ev, a.mode.action, gw, sel))
      [] a.mode = NewStash -> Arm(handle_new_stash(a, ev, gw))
      [] a.mode.tag = "Message" ->
           Done([a EXCEPT !.mode = Normal, !.selected = 0], Ok(FALSE), <<>>)

\* handle_events, for the event ev that poll / read deliver
handle_events(a, ev, gw, sel) ==
  IF IoFailed(ev) THEN Done(a, Err(ev.c), <<>>)
  ELSE IF ev \in {Timeout, NotAKey} THEN Done(a, Ok(FALSE), <<>>)
  ELSE
    CASE a.mode = Normal -> Arm(handle_normal(a, ev, gw, sel))
      [] a.mode \in {Diff, Files} -> Arm(handle_scroll(a, ev))
      [] a.mode.tag = "Confirm" -> Arm(handle_confirm(a, ev, a.mode.action, gw, sel))
      [] a.mode = NewStash -> Arm(handle_new_stash(a, ev, gw))
      [] a.mode.tag = "Message" -> Done([a EXCEPT !.mode = Normal], Ok(FALSE), <<>>)

-----------------------------------------------------------------------------
(* The loop of run: one step is one handle_events call.  ret is the Result *)
(* of the latest call (the loop goes on while it is Ok(false)); last is    *)
(* the latest key event with the gateway calls made while handling it and  *)
(* the mode it was handled in.                                             *)

\* the characters typed into the search query
SearchChars == {"A"}

\* the characters typed into the new-stash message
InputChars == {"w"}

NormalKeys ==
  {Char(c) : c \in {"q", "k", "j", "d", "f", "a", "p", "x", "n", "/", "c", "z"}}
    \cup {Key(k) : k \in {"Esc", "Up", "Down", "Enter", "Delete"}}

SearchKeys(chars) ==
  {Char(c) : c \in chars} \cup {Key(k) : k \in {"Esc", "Enter", "Backspace", "Up"}}

ScrollKeys ==
  {Char(c) : c \in {"q", "k", "j", "z"}}
    \cup {Key(k) : k \in {"Esc", "Up", "Down", "PageUp", "PageDown"}}

ConfirmKeys == {Char(c) : c \in {"y", "n", "z"}} \cup {Key(k) : k \in {"Enter", "Esc"}}

NewStashKeys(chars) ==
  {Char(c) : c \in chars} \cup {Key(k) : k \in {"Esc", "Enter", "Backspace", "Tab", "Up"}}

MessageKeys == {Char("q"), Key("Enter"), Key("Esc")}

\* the reload that fails at once
NoList == list_stashes(NoSpawn)

NoBranch == current_branch(NoSpawn)

NoGw == Gw(NoSpawn, NoSpawn, NoList, NoBranch)

\* the outcomes of a content load
ContentGw(procs) == {Gw(p, NoSpawn, NoList, NoBranch) : p \in procs}

\* the outcomes of a mutation and of the reload that follows its success
MutGw ==
  {Gw(NoSpawn, m, NoList, NoBranch) : m \in MutProcs}
    \cup {Gw(NoSpawn, m, l, b) : m \in {p \in MutProcs : p.spawned /\ p.success},
                                 l \in ListResults \ {NoList}, b \in BranchResults}

Running == ret = Ok(FALSE)

\* the state after a handle_events call that yielded r
Returned(r) ==
  /\ app' = r.app
  /\ ret' = r.res

\* what `last` keeps of a handle_events call: the event, the gateway calls made, and the
\* mode and search-entry flag the event was handled in
Handled(ev, calls, a) ==
  [event |-> ev, calls |-> calls, mode |-> a.mode.tag, searching |-> a.searching]

Dispatch(ev, gw) ==
  /\ Returned(handle_events(app, ev, gw, selected_stash(app)))
  /\ last' = Handled(ev, handle_events(app, ev, gw, selected_stash(app)).calls, app)

Init ==
  /\ \E l \in ListResults \ {NoList}, b \in BranchResults : app = new(l, b)
  /\ ret = Ok(FALSE)
  /\ last = Handled(Timeout, <<>>, app)

\* poll times out, or read delivers something that is no key press
Idle ==
  /\ Running
  /\ \E ev \in {Timeout, NotAKey} : Returned(handle_events(app, ev, NoGw, None))
  /\ UNCHANGED last

\* the io::Errors of the terminal that poll and read meet
IoFailures == {PollFailed("poll failed"), ReadFailed("read failed")}

\* poll or read fails: handle_events returns the error and run returns it
IoFails ==
  /\ Running
  /\ \E ev \in IoFailures : Dispatch(ev, NoGw)

KeyNormal(diffs, files) ==
  /\ Running
  /\ app.mode = Normal
  /\ ~app.searching
  /\ \E key \in NormalKeys :
       \E gw \in IF key \in {Key("Enter"), Char("d")} THEN ContentGw(diffs)
                 ELSE IF key = Char("f") THEN ContentGw(files)
                 ELSE {NoGw} :
         Dispatch(key, gw)

KeySearch(chars) ==
  /\ Running
  /\ app.mode = Normal
  /\ app.searching
  /\ \E key \in SearchKeys(chars) :
       /\ key.code = "Char" => Len(app.search_query) < MaxQuery
       /\ Dispatch(key, NoGw)

KeyScroll ==
  /\ Running
  /\ app.mode \in {Diff, Files}
  /\ \E key \in ScrollKeys : Dispatch(key, NoGw)

KeyConfirm ==
  /\ Running
  /\ app.mode.tag = "Confirm"
  /\ \E key \in ConfirmKeys :
       \E gw \in IF key \in {Char("y"), Key("Enter")} THEN MutGw ELSE {NoGw} :
         Dispatch(key, gw)

KeyNewStash(chars) ==
  /\ Running
  /\ app.mode = NewStash
  /\ \E key \in NewStashKeys(chars) :
       /\ key.code = "Char" => Len(app.new_stash_input) < MaxInput
       /\ \E gw \in IF key = Key("Enter") THEN MutGw ELSE {NoGw} : Dispatch(key, gw)

KeyMessage ==
  /\ Running
  /\ app.mode.tag = "Message"
  /\ \E key \in MessageKeys : Dispatch(key, NoGw)

Next ==
  \/ Idle
  \/ IoFails
  \/ KeyNormal(DiffProcs, FilesProcs)
  \/ KeySearch(SearchChars)
  \/ KeyScroll
  \/ KeyConfirm
  \/ KeyNewStash(InputChars)
  \/ KeyMessage

Spec == Init /\ [][Next]_vars

-----------------------------------------------------------------------------
(* The new-stash form on its own: `n` opens it, keys edit it, Enter makes  *)
(* the stash, any key dismisses the message.  The message typed is longer  *)
(* than in Spec and has blanks and the letter u in it.                     *)

\* the longest message typed into the form
MaxForm == 2

\* the characters typed into the form
FormChars == {"w", " ", "u"}

\* `n` in Normal mode
FormOpen ==
  /\ Running
  /\ app.mode = Normal
  /\ ~app.searching
  /\ Dispatch(Char("n"), NoGw)

\* a key in the form
FormKey ==
  /\ Running
  /\ app.mode = NewStash
  /\ \E key \in NewStashKeys(FormChars) :
       /\ key.code = "Char" => Len(app.new_stash_input) < MaxForm
       /\ \E gw \in IF key = Key("Enter") THEN MutGw ELSE {NoGw} : Dispatch(key, gw)

FormNext ==
  \/ FormOpen
  \/ FormKey
  \/ KeyMessage

FormSpec == Init /\ [][FormNext]_vars

-----------------------------------------------------------------------------
(* The stash list on its own: App::new on what `git stash list` can print, *)
(* lines that do not parse included, then navigation and search over it.   *)

\* the stash messages `git stash list` prints here
StartMessages ==
  {"WIP on feature/x: abc123 msg", "On main: cleanup", "random text", "On  A:b: c",
   "WIP on solo", "On dev\f: y"}

\* lines with fewer than three fields
BadLines == {"garbage", "a|b"}

\* line number i (from 0) of the output: a stash with the message k, or the bad line k
StartLine(i, k) ==
  IF k \in BadLines THEN k ELSE StashName(i) \o "|" \o k \o "|2 days ago"

RECURSIVE StartText(_, _)
\* the output whose lines, from line number i on, are of the kinds ks
StartText(ks, i) ==
  IF i >= Len(ks) THEN "" ELSE StartLine(i, ks[i + 1]) \o "\n" \o StartText(ks, i + 1)

StartTexts ==
  {StartText(ks, 0) : ks \in UNION {[1..n -> StartMessages \cup BadLines] : n \in 0..MaxStashes}}

\* what list_stashes() can return at startup
StartListResults == {list_stashes(Proc(TRUE, TRUE, t, "")) : t \in StartTexts}

\* the characters typed into the search query
StartChars == {"M", "x", "a"}

\* the keys of navigation and search in Normal mode
BrowseKeys == {Char(c) : c \in {"/", "c", "j", "k"}}

StartInit ==
  /\ \E l \in StartListResults : app = new(l, current_branch(Proc(TRUE, TRUE, "main\n", "")))
  /\ ret = Ok(FALSE)
  /\ last = Handled(Timeout, <<>>, app)

Browse ==
  /\ Running
  /\ app.mode = Normal
  /\ ~app.searching
  /\ \E key \in BrowseKeys : Dispatch(key, NoGw)

StartNext ==
  \/ Browse
  \/ KeySearch(StartChars)

StartSpec == StartInit /\ [][StartNext]_vars

-----------------------------------------------------------------------------
(* The filter on its own: a stash list whose messages have letters of      *)
(* both cases, accented and Greek ones among them, and a query typed over  *)
(* it.                                                                     *)

\* the stash messages `git stash list` prints here
FilterMessages == {"WIP on feature/x: abc123 msg", "On main: cleanup", "On É: ΑΣ"}

FilterTexts == {StartText(ks, 0) : ks \in UNION {[1..n -> FilterMessages] : n \in 0..MaxStashes}}

\* what list_stashes() can return at startup
FilterListResults == {list_stashes(Proc(TRUE, TRUE, t, "")) : t \in FilterTexts}

\* the characters typed into the search query
FilterChars == {"M", "é", "Σ", "ς"}

FilterInit ==
  /\ \E l \in FilterListResults : app = new(l, current_branch(Proc(TRUE, TRUE, "main\n", "")))
  /\ ret = Ok(FALSE)
  /\ last = Handled(Timeout, <<>>, app)

FilterNext ==
  \/ Browse
  \/ KeySearch(FilterChars)

FilterSpec == FilterInit /\ [][FilterNext]_vars

-----------------------------------------------------------------------------
(* The content views on their own: a record is opened with Enter, d or f   *)
(* and scrolled.  The text shown can be longer than one page.              *)

\* the most lines `git stash show` prints
MaxLines == 24

RECURSIVE LongText(_)
\* a text of n lines
LongText(n) == IF n = 0 THEN "" ELSE "+l\n" \o LongText(n - 1)

\* the texts `git stash show` prints here: none, a few lines, more than a page
LongTexts == {LongText(n) : n \in {0, 3, MaxLines}}

LongProcs == {NoSpawn} \cup {Proc(TRUE, TRUE, t, "") : t \in LongTexts}

ScrollNext ==
  \/ KeyNormal(LongProcs, LongProcs)
  \/ KeyScroll

ScrollSpec == Init /\ [][ScrollNext]_vars

-----------------------------------------------------------------------------
(* Search-entry on its own: the characters typed are the ones that are     *)
(* commands in Normal mode.                                                *)

\* the characters handle_normal acts on outside search-entry
CommandChars == {"q", "j", "k", "d", "f", "a", "p", "x", "n", "c", "/"}

SearchNext ==
  \/ Browse
  \/ KeySearch(CommandChars)

SearchSpec == Init /\ [][SearchNext]_vars

-----------------------------------------------------------------------------
(* The properties checked.  A property of one handle_events call is an     *)
(* action property: in a step, the unprimed variables are the state before *)
(* the call and last' is the key handled and the gateway calls made.       *)

\* the positions of s that hold no blank
Solid(s) == {i \in 1..Len(s) : CharAt(s, i) \notin White_Space}

\* s without its leading and trailing blanks
Trimmed(s) ==
  IF Solid(s) = {} THEN ""
  ELSE SubSeq(s, CHOOSE i \in Solid(s) : \A j \in Solid(s) : i <= j,
                 CHOOSE i \in Solid(s) : \A j \in Solid(s) : i >= j)

\* the positions of s where sep occurs
Occurs(s, sep) == {i \in 1..(Len(s) - Len(sep) + 1) : SubSeq(s, i, i + Len(sep) - 1) = sep}

\* the first position of s where sep occurs, 0 when there is none
First(s, sep) ==
  IF Occurs(s, sep) = {} THEN 0 ELSE CHOOSE i \in Occurs(s, sep) : \A j \in Occurs(s, sep) : i <= j

\* the letters that have two cases, each with its small form after it: the Latin
\* alphabet, and the accented and the Greek capital that the stash list holds
C11_Pairs ==
  {"Aa", "Bb", "Cc", "Dd", "Ee", "Ff", "Gg", "Hh", "Ii", "Jj", "Kk", "Ll", "Mm", "Nn", "Oo",
   "Pp", "Qq", "Rr", "Ss", "Tt", "Uu", "Vv", "Ww", "Xx", "Yy", "Zz", "Éé", "Αα"}

\* the small form of the character c
C11_Small(c) ==
  IF \E p \in C11_Pairs : CharAt(p, 1) = c
    THEN CharAt(CHOOSE p \in C11_Pairs : CharAt(p, 1) = c, 2)
    ELSE c

\* c is a letter, a capital or a small one
C11_Letter(c) ==
  c \in {"Σ", "σ", "ς"} \/ \E p \in C11_Pairs : c \in {CharAt(p, 1), CharAt(p, 2)}

\* c is a mark that may stand inside a word
C11_Mark(c) == c \in {"'", ".", ":", "^"}

\* in the direction d from position i of s there is a letter with nothing but marks
\* between it and i
C11_LetterNext(s, i, d) ==
  \E k \in 1..Len(s) :
    /\ (k - i) * d > 0
    /\ C11_Letter(CharAt(s, k))
    /\ \A m \in 1..Len(s) : ((m - i) * d > 0 /\ (k - m) * d > 0) => C11_Mark(CharAt(s, m))

\* the character at position i of the lowercased s: a capital sigma that ends a word is
\* the final sigma, any other capital its small form
C11_SmallAt(s, i) ==
  IF CharAt(s, i) = "Σ"
    THEN IF C11_LetterNext(s, i, -1) /\ ~C11_LetterNext(s, i, 1) THEN "ς" ELSE "σ"
    ELSE C11_Small(CharAt(s, i))

\* the lowercased n occurs in the lowercased h
C11_Has(h, n) ==
  \E i \in 0..(Len(h) - Len(n)) :
    \A j \in 1..Len(n) : C11_SmallAt(h, i + j) = C11_SmallAt(n, j)

\* the positions of the records the query q keeps
C11_Kept(stashes, q) ==
  IF q = "" THEN 1..Len(stashes)
  ELSE {i \in 1..Len(stashes) : C11_Has(stashes[i].short_msg, q) \/ C11_Has(stashes[i].branch, q)}

\* the k-th smallest member of the set of positions K
C11_Nth(K, k) == CHOOSE i \in K : Cardinality({j \in K : j < i}) = k - 1

\* C11: filtered_view() is all of stashes when the query is empty, and otherwise the
\* records whose lowercased short_msg or branch contains the lowercased query, each
\* once and in the order of stashes
C11_FilterIsStableSubset ==
  /\ Len(filtered_stashes(app)) = Cardinality(C11_Kept(app.stashes, app.search_query))
  /\ \A k \in 1..Len(filtered_stashes(app)) :
       filtered_stashes(app)[k] = app.stashes[C11_Nth(C11_Kept(app.stashes, app.search_query), k)]

C11_Witness ==
  /\ app.search_query = "é"
  /\ Len(app.stashes) = 2
  /\ app.stashes[1].message = "On main: cleanup"
  /\ app.stashes[2].message = "On É: ΑΣ"
  /\ app.stashes[2].branch = "É"
  /\ filtered_stashes(app) = <<app.stashes[2]>>

FilteredLen == Len(filtered_stashes(app))

\* the positions in a call log of the calls to op that succeeded / failed
Succeeded(calls, op) == {i \in 1..Len(calls) : calls[i].op = op /\ calls[i].res.ok}

Failed(calls, op) == {i \in 1..Len(calls) : calls[i].op = op /\ ~calls[i].res.ok}

\* the gateway functions whose failure is not swallowed
Fallible ==
  {"list_stashes", "stash_diff", "stash_files", "apply_stash", "pop_stash", "drop_stash",
   "push_stash"}

\* the step handles y or Enter in a Confirm dialog with a record selected
ConfirmYes ==
  /\ app.mode.tag = "Confirm"
  /\ selected_stash(app).some
  /\ last'.event \in {Char("y"), Key("Enter")}

\* C1: whenever filtered_view() is non-empty, 0 <= selected < filtered_view().length
C1_SelectedInView ==
  FilteredLen > 0 => (0 <= app.selected /\ app.selected < FilteredLen)

\* C2: every gateway failure met while handling a key leaves mode = Message("Error: " +
\* description), the rest of the state as it was, and handle_events returning Ok(false)
C2_FailureBecomesMessage ==
  [][\A op \in Fallible : \A i \in Failed(last'.calls, op) :
       /\ app' = [app EXCEPT !.mode = Message("Error: " \o last'.calls[i].res.val)]
       /\ ret' = Ok(FALSE)]_vars

\* C3: q or Escape in Normal mode with search-entry inactive makes handle_events
\* return Ok(true)
C3_QuitReported ==
  [][(app.mode = Normal /\ ~app.searching /\ last'.event \in {Char("q"), Key("Esc")})
       => ret' = Ok(TRUE)]_vars

\* C4: y or Enter in Confirm(action) with a record selected, when the gateway operation
\* fails with description D: mode becomes Message("Error: " + D), every other field of
\* App is unchanged and no reload is made
C4_FailedConfirmKeepsState ==
  [][(ConfirmYes /\ Len(last'.calls) >= 1 /\ ~last'.calls[1].res.ok)
       => /\ app' = [app EXCEPT !.mode = Message("Error: " \o last'.calls[1].res.val)]
          /\ Len(last'.calls) = 1]_vars

C4_Witness ==
  /\ last.event = Char("y")
  /\ Len(last.calls) = 1
  /\ last.calls[1].op = "drop_stash"
  /\ ~last.calls[1].res.ok
  /\ app.mode = Message("Error: Failed to drop stash: not found")

\* the gateway function and the success text the claim names for each action
C5_Op(action) ==
  CASE action = "Apply" -> "apply_stash"
    [] action = "Pop" -> "pop_stash"
    [] action = "Drop" -> "drop_stash"

C5_Text(action) ==
  CASE action = "Apply" -> "Stash applied successfully."
    [] action = "Pop" -> "Stash popped successfully."
    [] action = "Drop" -> "Stash dropped."

\* C5: y or Enter in Confirm(action) with a record selected calls exactly the gateway
\* operation of action, on the selected record's name; when it succeeds reload() runs
\* next, and when the reload's fetch succeeds mode becomes Message(success text) and
\* stashes is the collection that fetch returned
C5_ConfirmRunsOperation ==
  [][ConfirmYes =>
       /\ Len(last'.calls) >= 1
       /\ last'.calls[1].op = C5_Op(app.mode.action)
       /\ last'.calls[1].arg = selected_stash(app).val.name
       /\ \A i \in 2..Len(last'.calls) : last'.calls[i].op \in {"list_stashes", "current_branch"}
       /\ last'.calls[1].res.ok =>
            /\ Len(last'.calls) >= 2
            /\ last'.calls[2].op = "list_stashes"
            /\ last'.calls[2].res.ok =>
                 /\ app'.mode = Message(C5_Text(app.mode.action))
                 /\ app'.stashes = last'.calls[2].res.val]_vars

C5_Witness ==
  /\ last.event = Key("Enter")
  /\ Len(last.calls) = 3
  /\ last.calls[1].op = "pop_stash"
  /\ last.calls[1].arg = "stash@{1}"
  /\ last.calls[1].res.ok
  /\ last.calls[2].res.ok
  /\ Len(app.stashes) = 1
  /\ app.mode = Message("Stash popped successfully.")

\* C6: after a successful reload() that fetched a non-empty collection,
\* 0 <= selected < stashes.length and selected is not larger than before
C6_ReloadClamps ==
  [][\A i \in Succeeded(last'.calls, "list_stashes") :
       Len(last'.calls[i].res.val) > 0 =>
         /\ 0 <= app'.selected
         /\ app'.selected < Len(app'.stashes)
         /\ app'.selected <= app.selected]_vars

C6_Witness ==
  /\ Succeeded(last.calls, "list_stashes") # {}
  /\ last.calls[1].op = "drop_stash"
  /\ last.calls[1].arg = "stash@{1}"
  /\ Len(app.stashes) = 1
  /\ app.selected = 0

\* C7 as claimed: after a successful reload() that fetched an empty collection,
\* selected is 0
C7_EmptyReloadZeroes ==
  [][\A i \in Succeeded(last'.calls, "list_stashes") :
       Len(last'.calls[i].res.val) = 0 => app'.selected = 0]_vars

\* C7, amended: after a successful reload() that fetched an empty collection,
\* selected is what it was before the reload
C7_EmptyReloadKeepsSelected ==
  [][\A i \in Succeeded(last'.calls, "list_stashes") :
       Len(last'.calls[i].res.val) = 0 => app'.selected = app.selected]_vars

C7_Witness ==
  /\ Succeeded(last.calls, "list_stashes") # {}
  /\ Len(app.stashes) = 0
  /\ app.selected > 0

\* C8: when the fetch of reload() fails, stashes, current_branch and selected are
\* what they were before the call
C8_FailedReloadKeepsSnapshot ==
  [][Failed(last'.calls, "list_stashes") # {} =>
       /\ app'.stashes = app.stashes
       /\ app'.current_branch = app.current_branch
       /\ app'.selected = app.selected]_vars

C8_Witness ==
  /\ Failed(last.calls, "list_stashes") = {2}
  /\ last.calls[1].res.ok
  /\ ret = Err("Failed to run git stash list")
  /\ Len(app.stashes) = 2
  /\ app.selected = 1
  /\ app.current_branch = "main"

\* C9: content_scroll <= content_buffer.length - 1 when the buffer is non-empty,
\* content_scroll = 0 when it is empty
C9_ScrollInBounds ==
  IF Len(app.diff_content) = 0
    THEN app.diff_scroll = 0
    ELSE 0 <= app.diff_scroll /\ app.diff_scroll <= Len(app.diff_content) - 1

C9_Witness ==
  /\ app.mode = Diff
  /\ last.event = Key("PageDown")
  /\ Len(app.diff_content) = 2
  /\ app.diff_scroll = 1

\* C10: move_up and move_down leave selected within [0, filtered_view().length - 1],
\* and leave it unchanged when filtered_view() is empty
C10_MoveStaysInView ==
  [][(app.mode = Normal /\ ~app.searching
        /\ last'.event \in {Key("Up"), Char("k"), Key("Down"), Char("j")})
       => IF FilteredLen = 0
            THEN app'.selected = app.selected
            ELSE 0 <= app'.selected /\ app'.selected <= FilteredLen - 1]_vars

\* the Normal-mode keys that act on the selected record
C12_Keys ==
  {Key("Enter"), Char("d"), Char("f"), Char("a"), Char("p"), Char("x"), Key("Delete")}

\* C12: in Normal mode with search-entry inactive and no record selected, each of
\* Enter, d, f, a, p, x, Delete changes no field of App, makes no gateway call and
\* handle_events returns Ok(false)
C12_NoRecordNoOp ==
  [][(app.mode = Normal /\ ~app.searching /\ ~selected_stash(app).some
        /\ last'.event \in C12_Keys)
       => /\ app' = app
          /\ last'.calls = <<>>
          /\ ret' = Ok(FALSE)]_vars

C12_Witness ==
  /\ last.mode = "Normal"
  /\ ~last.searching
  /\ last.event = Char("x")
  /\ app.mode = Normal
  /\ Len(app.stashes) > 0
  /\ ~selected_stash(app).some

\* C13: while search-entry is active, Escape sets search_query to "", searching to
\* false and selected to 0 and changes nothing else; Backspace and every character
\* typed leave selected at 0
C13_SearchEscapeClears ==
  [][(app.mode = Normal /\ app.searching)
       => /\ last'.event = Key("Esc")
               => app' = [app EXCEPT !.search_query = "", !.searching = FALSE, !.selected = 0]
          /\ (last'.event = Key("Backspace") \/ last'.event.code = "Char")
               => app'.selected = 0]_vars

C13_Witness ==
  /\ last.mode = "Normal"
  /\ last.searching
  /\ last.event = Key("Esc")
  /\ app.search_query = ""
  /\ ~app.searching
  /\ app.selected = 0
  /\ Len(app.stashes) > 0

\* C14: while search-entry is active, Enter sets searching to false and changes
\* nothing else, the query included; while search-entry is inactive the query only
\* changes by `/` or `c` pressed in Normal mode
C14_EnterCommitsQuery ==
  [][/\ (app.mode = Normal /\ app.searching /\ last'.event = Key("Enter"))
          => app' = [app EXCEPT !.searching = FALSE]
     /\ (~app.searching /\ app'.search_query # app.search_query)
          => (app.mode = Normal /\ last'.event \in {Char("/"), Char("c")})]_vars

C14_Witness ==
  /\ last.mode = "Normal"
  /\ last.searching
  /\ last.event = Key("Enter")
  /\ ~app.searching
  /\ app.search_query = "A"
  /\ FilteredLen > 0
  /\ FilteredLen < Len(app.stashes)

\* C15: `n` or Escape in Confirm(action) sets mode to Normal, makes no gateway call
\* and changes no other field of App
C15_CancelConfirm ==
  [][(app.mode.tag = "Confirm" /\ last'.event \in {Char("n"), Key("Esc")})
       => /\ app' = [app EXCEPT !.mode = Normal]
          /\ last'.calls = <<>>
          /\ ret' = Ok(FALSE)]_vars

C15_Witness ==
  /\ last.mode = "Confirm"
  /\ last.event = Char("n")
  /\ last.calls = <<>>
  /\ app.mode = Normal
  /\ app.selected = 1
  /\ Len(app.stashes) = 2

\* C18: in Message(text) mode every key sets mode to Normal and changes no other
\* field of App, makes no gateway call, and handle_events returns Ok(false)
C18_AnyKeyDismisses ==
  [][(app.mode.tag = "Message" /\ last'.mode = "Message" /\ ~IoFailed(last'.event))
       => /\ app' = [app EXCEPT !.mode = Normal]
          /\ last'.calls = <<>>
          /\ ret' = Ok(FALSE)]_vars

C18_Witness ==
  /\ last.mode = "Message"
  /\ last.event = Char("q")
  /\ app.mode = Normal
  /\ ret = Ok(FALSE)
  /\ app.selected = 1
  /\ app.search_query = "A"

\* what C16 asks of Enter in the form, msg being the trimmed input
C16_Enter(msg) ==
  IF msg = ""
    THEN /\ app' = app
         /\ last'.calls = <<>>
         /\ ret' = Ok(FALSE)
    ELSE /\ Len(last'.calls) >= 1
         /\ last'.calls[1].op = "push_stash"
         /\ last'.calls[1].arg = [message |-> msg, include_untracked |-> app.new_stash_untracked]
         /\ \A i \in 2..Len(last'.calls) : last'.calls[i].op \in {"list_stashes", "current_branch"}
         /\ last'.calls[1].res.ok =>
              /\ Len(last'.calls) >= 2
              /\ last'.calls[2].op = "list_stashes"
              /\ last'.calls[2].res.ok =>
                   /\ app'.mode = Message("Stash '" \o msg \o "' created.")
                   /\ app'.stashes = last'.calls[2].res.val
         /\ ~last'.calls[1].res.ok =>
              /\ Len(last'.calls) = 1
              /\ app' = [app EXCEPT !.mode = Message("Error: " \o last'.calls[1].res.val)]

\* C16: Enter in the new-stash form calls push_stash exactly when the trimmed input
\* is non-empty, with the trimmed text and the untracked flag; when the call succeeds
\* reload() runs and (its fetch succeeding) mode becomes the message naming the trimmed
\* text; when the call fails mode becomes Message("Error: ...") and no reload is made;
\* when the trimmed input is empty nothing is called and nothing changes
C16_EnterCreates ==
  [][(app.mode = NewStash /\ last'.mode = "NewStash" /\ last'.event = Key("Enter"))
       => C16_Enter(Trimmed(app.new_stash_input))]_vars

C16_Witness ==
  /\ last.mode = "NewStash"
  /\ last.event = Key("Enter")
  /\ app.new_stash_input = " w"
  /\ Len(last.calls) = 3
  /\ last.calls[1].arg = [message |-> "w", include_untracked |-> TRUE]
  /\ app.mode = Message("Stash 'w' created.")

\* C17: in the new-stash form Tab toggles new_stash_untracked and nothing else; `u`
\* toggles the flag when the input is empty and is appended to it otherwise; every
\* other character is appended; none of them changes any other field
C17_FormKeys ==
  [][(app.mode = NewStash /\ last'.mode = "NewStash")
       => /\ last'.event = Key("Tab")
               => app' = [app EXCEPT !.new_stash_untracked = ~app.new_stash_untracked]
          /\ last'.event = Char("u")
               => app' = IF app.new_stash_input = ""
                           THEN [app EXCEPT !.new_stash_untracked = ~app.new_stash_untracked]
                           ELSE [app EXCEPT !.new_stash_input = app.new_stash_input \o "u"]
          /\ (last'.event.code = "Char" /\ last'.event # Char("u"))
               => app' = [app EXCEPT !.new_stash_input = app.new_stash_input \o last'.event.c]]_vars

C17_Witness ==
  /\ last.mode = "NewStash"
  /\ last.event = Char("u")
  /\ app.mode = NewStash
  /\ app.new_stash_input = "wu"
  /\ app.new_stash_untracked

\* C19: the index of every record list_stashes returned is its position, from 0, in
\* the returned sequence
C19_IndexIsPosition ==
  \A k \in 1..Len(app.stashes) : app.stashes[k].index = k - 1

\* the text of message after the prefix, up to its first ':' (all of it when there is none)
C20_Named(message, prefix) ==
  IF First(SubSeq(message, Len(prefix) + 1, Len(message)), ":") = 0
    THEN SubSeq(message, Len(prefix) + 1, Len(message))
    ELSE SubSeq(message, Len(prefix) + 1,
                Len(prefix) + First(SubSeq(message, Len(prefix) + 1, Len(message)), ":") - 1)

C20_Branch(message) ==
  IF SubSeq(message, 1, 7) = "WIP on " THEN Trimmed(C20_Named(message, "WIP on "))
  ELSE IF SubSeq(message, 1, 3) = "On " THEN Trimmed(C20_Named(message, "On "))
  ELSE "unknown"

C20_ShortMsg(message) ==
  IF First(message, ": ") = 0 THEN message
  ELSE SubSeq(message, First(message, ": ") + 2, Len(message))

\* C20: of every record, branch is the trimmed text between "WIP on " (else "On ") and
\* the first ':' of the message, "unknown" when the message has neither prefix, and
\* short_msg is what follows the first ": ", the whole message when there is none
C20_BranchAndShortMsg ==
  \A k \in 1..Len(app.stashes) :
    /\ app.stashes[k].branch = C20_Branch(app.stashes[k].message)
    /\ app.stashes[k].short_msg = C20_ShortMsg(app.stashes[k].message)
    /\ app.stashes[k].message = "WIP on feature/x: abc123 msg"
         => app.stashes[k].branch = "feature/x" /\ app.stashes[k].short_msg = "abc123 msg"
    /\ app.stashes[k].message = "On main: cleanup"
         => app.stashes[k].branch = "main" /\ app.stashes[k].short_msg = "cleanup"
    /\ app.stashes[k].message = "random text"
         => app.stashes[k].branch = "unknown" /\ app.stashes[k].short_msg = "random text"

C20_Witness ==
  /\ Len(app.stashes) = 2
  /\ app.stashes[1].message = "WIP on feature/x: abc123 msg"
  /\ app.stashes[1].branch = "feature/x"
  /\ app.stashes[1].short_msg = "abc123 msg"
  /\ app.stashes[2].message = "On  A:b: c"
  /\ app.stashes[2].branch = "A"
  /\ app.stashes[2].short_msg = "c"

\* the offset k lines below s in a buffer of len lines, kept on the last line
C21_Down(s, k, len) ==
  IF len = 0 THEN 0 ELSE IF s + k < len - 1 THEN s + k ELSE len - 1

\* the offset k lines above s, kept on the first line
C21_Up(s, k) == IF s - k > 0 THEN s - k ELSE 0

\* C21: in a content view PageDown from the offset s leaves
\* content_scroll = min(s + 20, length - 1) (0 for an empty buffer) and PageUp leaves
\* max(s - 20, 0), nothing else changing; k single-line steps down equal one clamped
\* jump by k, so length steps from 0 end at length - 1
C21_PageIsClampedJump ==
  [][(app.mode \in {Diff, Files} /\ last'.mode \in {"Diff", "Files"})
       => /\ last'.event = Key("PageDown")
               => app' = [app EXCEPT !.diff_scroll =
                            C21_Down(app.diff_scroll, 20, Len(app.diff_content))]
          /\ last'.event = Key("PageUp")
               => app' = [app EXCEPT !.diff_scroll = C21_Up(app.diff_scroll, 20)]
          /\ \A k \in 0..(MaxLines + 1) :
               PageDown(k, app).diff_scroll =
                 C21_Down(app.diff_scroll, k, Len(app.diff_content))
          /\ PageDown(Len(app.diff_content), [app EXCEPT !.diff_scroll = 0]).diff_scroll =
               C21_Down(0, Len(app.diff_content), Len(app.diff_content))]_vars

C21_Witness ==
  /\ last.mode = "Diff"
  /\ last.event = Key("PageDown")
  /\ Len(app.diff_content) = MaxLines
  /\ app.diff_scroll = 21

\* the gateway functions that change the stash list
C22_Mutators == {"apply_stash", "pop_stash", "drop_stash", "push_stash"}

\* C22: stashes changes only in a step whose first gateway call is a successful apply,
\* pop, drop or create followed by a successful fetch, and after every such step
\* stashes is the fetched collection; every other step leaves stashes as it was
C22_StashesOnlyByReload ==
  [][/\ app'.stashes # app.stashes
          => /\ Len(last'.calls) >= 2
             /\ last'.calls[1].op \in C22_Mutators
             /\ last'.calls[1].res.ok
             /\ last'.calls[2].op = "list_stashes"
             /\ last'.calls[2].res.ok
     /\ \A i \in Succeeded(last'.calls, "list_stashes") :
          /\ i = 2
          /\ last'.calls[1].op \in C22_Mutators
          /\ last'.calls[1].res.ok
          /\ app'.stashes = last'.calls[i].res.val]_vars

C22_Witness ==
  /\ last.mode = "NewStash"
  /\ Len(last.calls) = 3
  /\ last.calls[1].op = "push_stash"
  /\ last.calls[1].res.ok
  /\ last.calls[2].op = "list_stashes"
  /\ last.calls[2].res.ok
  /\ Len(last.calls[2].res.val) = 2
  /\ app.stashes = last.calls[2].res.val

\* the modes that show or act on the selected record
C23_OnRecord(mode) == mode.tag \in {"Confirm", "Diff", "Files"}

\* C23: after every step that ends in Confirm(action), Diff or Files a record is
\* selected; such a mode is entered from Normal mode with a record selected, and a
\* step that stays in it changes none of stashes, selected and search_query
C23_RecordModesHaveRecord ==
  [][/\ C23_OnRecord(app'.mode) => selected_stash(app').some
     /\ (C23_OnRecord(app'.mode) /\ app'.mode # app.mode)
          => (app.mode = Normal /\ selected_stash(app).some)
     /\ (C23_OnRecord(app.mode) /\ app'.mode = app.mode)
          => /\ app'.stashes = app.stashes
             /\ app'.selected = app.selected
             /\ app'.search_query = app.search_query]_vars

C23_Witness ==
  /\ app.mode = Files
  /\ last.mode = "Files"
  /\ last.event = Char("j")
  /\ app.selected = 1
  /\ app.search_query = "A"
  /\ selected_stash(app).some

\* the positions in a call log of the calls to one of the functions ops
C24_Calls(calls, ops) == {i \in 1..Len(calls) : calls[i].op \in ops}

\* C24: apply, pop or drop is called only while y or Enter is handled in
\* Confirm(action), is the function of action and gets the name of the selected
\* record; the selected record is the same from the step that opens the dialog, which
\* starts in Normal mode, through every step that stays in it; push_stash is called
\* only while Enter is handled in the new-stash form
C24_NoMutationUnconfirmed ==
  [][/\ \A i \in C24_Calls(last'.calls, {"apply_stash", "pop_stash", "drop_stash"}) :
          /\ i = 1
          /\ app.mode.tag = "Confirm"
          /\ last'.event \in {Char("y"), Key("Enter")}
          /\ last'.calls[i].op = C5_Op(app.mode.action)
          /\ selected_stash(app).some
          /\ last'.calls[i].arg = selected_stash(app).val.name
     /\ (app'.mode.tag = "Confirm" /\ app.mode.tag # "Confirm")
          => /\ app.mode = Normal
             /\ selected_stash(app).some
             /\ selected_stash(app') = selected_stash(app)
     /\ (app'.mode.tag = "Confirm" /\ app.mode.tag = "Confirm")
          => /\ app'.mode = app.mode
             /\ selected_stash(app') = selected_stash(app)
     /\ \A i \in C24_Calls(last'.calls, {"push_stash"}) :
          /\ i = 1
          /\ app.mode = NewStash
          /\ last'.event = Key("Enter")]_vars

C24_Witness ==
  /\ last.mode = "Confirm"
  /\ last.event = Char("y")
  /\ Len(last.calls) >= 1
  /\ last.calls[1].op = "apply_stash"
  /\ last.calls[1].arg = "stash@{1}"
  /\ last.calls[1].res.ok
  /\ app.mode = Message("Stash applied successfully.")

\* C25: while search-entry is active the mode is Normal and every key is handled by
\* the search branch: a character, command characters included, is appended to
\* search_query and selected set to 0; no key changes mode or stashes, calls the
\* gateway or makes handle_events return anything but Ok(false); only Escape and
\* Enter end search-entry
C25_SearchCapturesKeys ==
  [][/\ app'.searching => app'.mode = Normal
     /\ (app.searching /\ last'.searching)
          => /\ app'.mode = app.mode
             /\ app'.stashes = app.stashes
             /\ last'.calls = <<>>
             /\ ret' = Ok(FALSE)
             /\ last'.event.code = "Char"
                  => app' = [app EXCEPT !.search_query = app.search_query \o last'.event.c,
                                        !.selected = 0]
             /\ ~app'.searching => last'.event \in {Key("Esc"), Key("Enter")}]_vars

C25_Witness ==
  /\ last.mode = "Normal"
  /\ last.searching
  /\ last.event = Char("q")
  /\ app.searching
  /\ app.mode = Normal
  /\ app.search_query = "q"
  /\ ret = Ok(FALSE)

\* C26: the new-stash input never begins with the character u
C26_InputNeverStartsWithU ==
  Len(app.new_stash_input) = 0 \/ CharAt(app.new_stash_input, 1) # "u"

C26_Witness ==
  /\ last.mode = "NewStash"
  /\ last.event = Char("u")
  /\ app.mode = NewStash
  /\ app.new_stash_input = ""
  /\ app.new_stash_untracked

====
